---------------------------- MODULE Spec2Model ----------------------------
(***************************************************************************)
(* State-machine model of the openvpn-plugin adapter: the three entry      *)
(* points openvpn_plugin_open / openvpn_plugin_func / openvpn_plugin_close *)
(* of src/src/lib.rs, the ABI parsing of src/src/ffi/parse.rs, the event   *)
(* model of src/src/types.rs and the report sink of src/src/logging.rs.    *)
(*                                                                         *)
(* A C string is a sequence of byte tokens, a pointer to a string array is *)
(* a record [null, cells] of the pointer cells found at the address, each  *)
(* cell a null pointer or the bytes found at its pointee, a Result is a    *)
(* record [ok, val, err].  An error is the                                 *)
(* sequence of the Display texts of itself and of its causes, outermost    *)
(* first; a Display text is a record [text, arg].                          *)
(***************************************************************************)
EXTENDS Integers, Sequences, FiniteSets, TLC

(***************************************************************************)
(* Bounds of the model.                                                    *)
(***************************************************************************)
MaxEvents == 2
MaxOpens == 2
MaxHandleVal == 1
MaxStrLen == 2
MaxEntries == 2
MaxEventListLen == 2
MaxCauses == 2

(***************************************************************************)
(* src/src/ffi/mod.rs: the status integers.                                *)
(***************************************************************************)
OPENVPN_PLUGIN_FUNC_SUCCESS == 0
OPENVPN_PLUGIN_FUNC_ERROR == 1
OPENVPN_PLUGIN_FUNC_DEFERRED == 2

(***************************************************************************)
(* src/src/types.rs: the event codes the code uses by name.                *)
(***************************************************************************)
Up == 0
RouteUp == 2
AuthUserPassVerify == 5
N == 13

NULL == 0
Addrs == {1, 2}
HandleVals == 0 .. MaxHandleVal
Threads == {1, 2}

Ok(v) == [ok |-> TRUE, val |-> v, err |-> <<>>]
Err(e) == [ok |-> FALSE, val |-> <<>>, err |-> e]

Display(text, arg) == [text |-> text, arg |-> arg]

(***************************************************************************)
(* types.rs: InvalidEnumVariant and OpenVpnPluginEvent::from_int.          *)
(***************************************************************************)
InvalidEnumVariant(i) ==
    << Display("is not a valid OPENVPN_PLUGIN_* constant", <<ToString(i)>>) >>

\* The enum: each variant with its discriminant (types.rs 36-51).
OpenVpnPluginEvent ==
    [Up |-> Up, Down |-> 1, RouteUp |-> RouteUp, IpChange |-> 3, TlsVerify |-> 4,
     AuthUserPassVerify |-> AuthUserPassVerify, ClientConnect |-> 6,
     ClientDisconnect |-> 7, LearnAddress |-> 8, ClientConnectV2 |-> 9,
     TlsFinal |-> 10, EnablePf |-> 11, RoutePredown |-> 12, N |-> N]

Variants == DOMAIN OpenVpnPluginEvent

\* event as c_int
as_int(event) == OpenVpnPluginEvent[event]

\* transmute_copy::<c_int, OpenVpnPluginEvent>(&i): the variant whose
\* discriminant is i.
transmute_copy_reversed(i) == CHOOSE e \in Variants : as_int(e) = as_int("N") - i

transmute_copy(i) == CHOOSE e \in Variants : as_int(e) = i

from_int_no_upper_bound(i) ==
    IF i >= as_int("Up")
    THEN Ok(transmute_copy(IF i <= as_int("N") THEN i ELSE as_int("N")))
    ELSE Err(InvalidEnumVariant(i))

from_int_below_N(i) ==
    IF i >= as_int("Up") /\ i < as_int("N") THEN Ok(transmute_copy(i))
    ELSE Err(InvalidEnumVariant(i))

from_int(i) ==
    IF i >= as_int("Up") /\ i <= as_int("N")
    THEN Ok(transmute_copy(i))
    ELSE Err(InvalidEnumVariant(i))

(***************************************************************************)
(* Bitwise OR and left shift on non-negative c_int values.                 *)
(***************************************************************************)
BitOr_as_add(a, b) == a + b

RECURSIVE BitOr(_, _)
BitOr(a, b) ==
    IF a = 0 THEN b
    ELSE IF b = 0 THEN a
    ELSE (IF a % 2 = 1 \/ b % 2 = 1 THEN 1 ELSE 0) + 2 * BitOr(a \div 2, b \div 2)

Shl1_one_based(n) == 2 ^ (n + 1)

Shl1(n) == 2 ^ n

(***************************************************************************)
(* types.rs: events_to_bitmask, the fold  bitmask |= 1 << event.           *)
(***************************************************************************)
RECURSIVE events_fold_assign(_, _)
events_fold_assign(bitmask, events) ==
    IF events = <<>> THEN bitmask
    ELSE events_fold_assign(Shl1(as_int(Head(events))), Tail(events))

RECURSIVE events_fold(_, _)
events_fold(bitmask, events) ==
    IF events = <<>> THEN bitmask
    ELSE events_fold(BitOr(bitmask, Shl1(as_int(Head(events)))), Tail(events))

events_to_bitmask(events) == events_fold(0, events)

(***************************************************************************)
(* ffi/parse.rs: ParseError, string_array and env.                         *)
(***************************************************************************)
NullPtr == << Display("Input is null pointer", <<>>) >>
NoEqual_without_text(s) == << Display("No equal sign in", <<>>) >>

NoEqual(s) == << Display("No equal sign in", s) >>

\* Memory as the host lays it out: the terminating NUL byte of a string,
\* a null pointer cell, a cell pointing at the bytes of a string.
NUL == "NUL"
NullCell == [nullp |-> TRUE, bytes |-> <<>>]
StrCell(s, after) == [nullp |-> FALSE, bytes |-> s \o <<NUL>> \o after]

NullArray == [null |-> TRUE, cells |-> <<>>]

\* A null-terminated array of the strings strs, followed by whatever else
\* lies in memory behind the terminators.
ArrayThen(strs, after_nul, after_null) ==
    [null |-> FALSE,
     cells |-> [i \in 1 .. Len(strs) |-> StrCell(strs[i], after_nul)]
                  \o <<NullCell>> \o after_null]

Array(strs) == ArrayThen(strs, <<>>, <<>>)

\* CStr::from_ptr(p).to_owned(): the bytes up to the first NUL.
RECURSIVE CStr_from_ptr(_)
CStr_from_ptr(bytes) ==
    IF Head(bytes) = NUL THEN <<>>
    ELSE <<Head(bytes)>> \o CStr_from_ptr(Tail(bytes))

RECURSIVE string_array_loop_prepend(_, _)
string_array_loop_prepend(cells, strings) ==
    IF Head(cells).nullp THEN strings
    ELSE string_array_loop_prepend(Tail(cells),
                                   <<CStr_from_ptr(Head(cells).bytes)>> \o strings)

\* while !(*ptr).is_null() { strings.push(..); ptr = ptr.offset(1) }
RECURSIVE string_array_loop(_, _)
string_array_loop(cells, strings) ==
    IF Head(cells).nullp THEN strings
    ELSE string_array_loop(Tail(cells), Append(strings, CStr_from_ptr(Head(cells).bytes)))

string_array(ptr) ==
    IF ptr.null THEN Err(NullPtr) ELSE Ok(string_array_loop(ptr.cells, <<>>))

\* string_bytes.iter().position(|&c| c == b'='): 0 when there is none.
RECURSIVE position_from(_, _)
position_from(s, i) ==
    IF i > Len(s) THEN 0
    ELSE IF s[i] = "=" THEN i
    ELSE position_from(s, i + 1)

RECURSIVE rposition_from(_, _)
rposition_from(s, i) ==
    IF i < 1 THEN 0
    ELSE IF s[i] = "=" THEN i
    ELSE rposition_from(s, i - 1)

equal_index_last(s) == rposition_from(s, Len(s))

equal_index(s) == position_from(s, 1)

map_insert_keep_first(map, key, value) ==
    [k \in DOMAIN map \cup {key} |-> IF k \in DOMAIN map THEN map[k] ELSE value]

map_insert(map, key, value) ==
    [k \in DOMAIN map \cup {key} |-> IF k = key THEN value ELSE map[k]]

EmptyMap == [k \in {} |-> <<>>]

RECURSIVE env_loop(_, _)
env_loop(map, strings) ==
    IF strings = <<>> THEN Ok(map)
    ELSE LET string == Head(strings)
             idx == equal_index(string)
         IN  IF idx = 0 THEN Err(NoEqual(string))
             ELSE env_loop(map_insert(map,
                                      SubSeq(string, 1, idx - 1),
                                      SubSeq(string, idx + 1, Len(string))),
                           Tail(strings))

env_skips_bad_entries(envptr) ==
    LET strings == string_array(envptr)
    IN  IF ~strings.ok THEN strings
        ELSE env_loop(EmptyMap, SelectSeq(strings.val, LAMBDA s : equal_index(s) # 0))

env(envptr) ==
    LET strings == string_array(envptr)
    IN  IF ~strings.ok THEN strings ELSE env_loop(EmptyMap, strings.val)

(***************************************************************************)
(* ffi/parse.rs: string_array_utf8 and env_utf8.  CString::to_str checks   *)
(* the bytes as UTF-8: an ASCII byte is a character, the lead byte C3 with *)
(* a continuation byte behind it is a character, anything else is invalid. *)
(* A String is the sequence of its characters, each the bytes encoding it. *)
(***************************************************************************)
Ascii == {"k", "j", "v", "w", "=", " "}
Lead2 == {"C3"}
Continuation == {"A9"}

Utf8Error(valid_up_to, error_len) ==
    [valid_up_to |-> valid_up_to, error_len |-> error_len]

RECURSIVE from_utf8(_, _, _)
from_utf8(bytes, i, chars) ==
    IF i > Len(bytes) THEN Ok(chars)
    ELSE IF bytes[i] \in Ascii THEN from_utf8(bytes, i + 1, Append(chars, <<bytes[i]>>))
    ELSE IF bytes[i] \in Lead2
    THEN IF i + 1 > Len(bytes) THEN Err(Utf8Error(i - 1, 0))
         ELSE IF bytes[i + 1] \in Continuation
         THEN from_utf8(bytes, i + 2, Append(chars, <<bytes[i], bytes[i + 1]>>))
         ELSE Err(Utf8Error(i - 1, 1))
    ELSE Err(Utf8Error(i - 1, 1))

RECURSIVE from_utf8_lossy(_, _, _)
from_utf8_lossy(bytes, i, chars) ==
    IF i > Len(bytes) THEN Ok(chars)
    ELSE IF bytes[i] \in Ascii
    THEN from_utf8_lossy(bytes, i + 1, Append(chars, <<bytes[i]>>))
    ELSE IF bytes[i] \in Lead2 /\ i + 1 <= Len(bytes) /\ bytes[i + 1] \in Continuation
    THEN from_utf8_lossy(bytes, i + 2, Append(chars, <<bytes[i], bytes[i + 1]>>))
    ELSE from_utf8_lossy(bytes, i + 1, chars)

to_str_lossy(cstring) == from_utf8_lossy(cstring, 1, <<>>)

to_str(cstring) == from_utf8(cstring, 1, <<>>)

\* strings.iter().map(|s| s.to_str().map(|s| s.to_owned())).collect()
RECURSIVE collect_utf8(_, _)
collect_utf8(strings, out) ==
    IF strings = <<>> THEN Ok(out)
    ELSE LET s == to_str(Head(strings))
         IN  IF ~s.ok THEN s ELSE collect_utf8(Tail(strings), Append(out, s.val))

string_array_utf8(strings) == collect_utf8(strings, <<>>)

\* for (key, value) in env { output_env.insert(key.to_str()?, value.to_str()?) }
\* order is the order in which the HashMap yields its keys.
RECURSIVE env_utf8_loop(_, _, _)
env_utf8_loop(map, order, output_env) ==
    IF order = <<>> THEN Ok(output_env)
    ELSE LET key == to_str(Head(order))
             value == to_str(map[Head(order)])
         IN  IF ~key.ok THEN key
             ELSE IF ~value.ok THEN value
             ELSE env_utf8_loop(map, Tail(order), map_insert(output_env, key.val, value.val))

env_utf8(map, order) == env_utf8_loop(map, order, EmptyMap)

(***************************************************************************)
(* lib.rs: the internal Error type; logging.rs: format_error, log_error    *)
(* and log_panic.  A report is what one call of the sink writes.           *)
(***************************************************************************)
Error_new_without_cause(msg, cause) == << Display(msg, <<>>) >>

Error_new(msg, cause) == << Display(msg, <<>>) >> \o cause

format_error_first_cause_only(error) ==
    [j \in 1 .. (IF Len(error) > 2 THEN 2 ELSE Len(error)) |->
        [prefix |-> IF j = 1 THEN "Error: " ELSE "Caused by: ", display |-> error[j]]]

format_error(error) ==
    [j \in 1 .. Len(error) |->
        [prefix |-> IF j = 1 THEN "Error: " ELSE "Caused by: ", display |-> error[j]]]

log_error(error) ==
    [sink |-> "error", lines |-> format_error(error), source |-> "", msg |-> ""]

log_panic_any_payload(source, panic_payload) ==
    [sink |-> "panic", lines |-> <<>>, source |-> source, msg |-> panic_payload.msg]

log_panic(source, panic_payload) ==
    [sink |-> "panic", lines |-> <<>>, source |-> source,
     msg |-> IF panic_payload.ty = "&str" THEN panic_payload.msg ELSE ""]

(***************************************************************************)
(* lib.rs: panic::catch_unwind.  A callback outcome o has o.k in            *)
(* {"ok", "err", "panic"}; a panic that is not caught keeps unwinding.     *)
(***************************************************************************)
NoPayload == [ty |-> "other", msg |-> ""]
NoOutcome ==
    [k |-> "none", res |-> "", events |-> <<>>, handle |-> 0, e |-> <<>>,
     payload |-> NoPayload]

catch_unwind_absent(o) == Ok(o)

catch_unwind(o) == IF o.k = "panic" THEN Err(o.payload) ELSE Ok(o)

NoStatus == -1
Unwinds == [unwound |-> TRUE, status |-> NoStatus, reports |-> <<>>]
Returns(status, reports) == [unwound |-> FALSE, status |-> status, reports |-> reports]

\* try_or_return_error!: log Error::new(error_msg, e), return ERROR.
try_or_return_error(result, error_msg) ==
    Returns(OPENVPN_PLUGIN_FUNC_ERROR, << log_error(Error_new(error_msg, result.err)) >>)

\* The match of openvpn_plugin_open on the caught result (lib.rs 339-353).
open_match_silent(result) ==
    IF ~result.ok
    THEN Returns(OPENVPN_PLUGIN_FUNC_ERROR, << log_panic("plugin open", result.err) >>)
    ELSE IF result.val.k = "panic" THEN Unwinds
    ELSE IF result.val.k = "err" THEN Returns(OPENVPN_PLUGIN_FUNC_ERROR, <<>>)
    ELSE Returns(OPENVPN_PLUGIN_FUNC_SUCCESS, <<>>)

open_match_err_as_success(result) ==
    IF ~result.ok
    THEN Returns(OPENVPN_PLUGIN_FUNC_ERROR, << log_panic("plugin open", result.err) >>)
    ELSE IF result.val.k = "panic" THEN Unwinds
    ELSE IF result.val.k = "err"
    THEN Returns(OPENVPN_PLUGIN_FUNC_SUCCESS, << log_error(result.val.e) >>)
    ELSE Returns(OPENVPN_PLUGIN_FUNC_SUCCESS, <<>>)

open_match(result) ==
    IF ~result.ok
    THEN Returns(OPENVPN_PLUGIN_FUNC_ERROR, << log_panic("plugin open", result.err) >>)
    ELSE IF result.val.k = "panic" THEN Unwinds
    ELSE IF result.val.k = "err"
    THEN Returns(OPENVPN_PLUGIN_FUNC_ERROR, << log_error(result.val.e) >>)
    ELSE Returns(OPENVPN_PLUGIN_FUNC_SUCCESS, <<>>)

\* The match of openvpn_plugin_func on the caught result (lib.rs 407-419).
func_match_deferred_as_success(result) ==
    IF ~result.ok
    THEN Returns(OPENVPN_PLUGIN_FUNC_ERROR, << log_panic("plugin func", result.err) >>)
    ELSE IF result.val.k = "panic" THEN Unwinds
    ELSE IF result.val.k = "err"
    THEN Returns(OPENVPN_PLUGIN_FUNC_ERROR, << log_error(result.val.e) >>)
    ELSE IF result.val.res = "Failure" THEN Returns(OPENVPN_PLUGIN_FUNC_ERROR, <<>>)
    ELSE Returns(OPENVPN_PLUGIN_FUNC_SUCCESS, <<>>)

func_match_err_as_deferred(result) ==
    IF ~result.ok
    THEN Returns(OPENVPN_PLUGIN_FUNC_ERROR, << log_panic("plugin func", result.err) >>)
    ELSE IF result.val.k = "panic" THEN Unwinds
    ELSE IF result.val.k = "err"
    THEN Returns(OPENVPN_PLUGIN_FUNC_DEFERRED, << log_error(result.val.e) >>)
    ELSE IF result.val.res = "Success" THEN Returns(OPENVPN_PLUGIN_FUNC_SUCCESS, <<>>)
    ELSE IF result.val.res = "Deferred" THEN Returns(OPENVPN_PLUGIN_FUNC_DEFERRED, <<>>)
    ELSE Returns(OPENVPN_PLUGIN_FUNC_ERROR, <<>>)

func_match(result) ==
    IF ~result.ok
    THEN Returns(OPENVPN_PLUGIN_FUNC_ERROR, << log_panic("plugin func", result.err) >>)
    ELSE IF result.val.k = "panic" THEN Unwinds
    ELSE IF result.val.k = "err"
    THEN Returns(OPENVPN_PLUGIN_FUNC_ERROR, << log_error(result.val.e) >>)
    ELSE IF result.val.res = "Success" THEN Returns(OPENVPN_PLUGIN_FUNC_SUCCESS, <<>>)
    ELSE IF result.val.res = "Deferred" THEN Returns(OPENVPN_PLUGIN_FUNC_DEFERRED, <<>>)
    ELSE Returns(OPENVPN_PLUGIN_FUNC_ERROR, <<>>)

\* The if-let of openvpn_plugin_close on the caught result (lib.rs 370-372).
close_match_silent(result) ==
    IF result.ok /\ result.val.k = "panic" THEN Unwinds ELSE Returns(NoStatus, <<>>)

close_match(result) ==
    IF ~result.ok
    THEN Returns(NoStatus, << log_panic("plugin close", result.err) >>)
    ELSE IF result.val.k = "panic" THEN Unwinds
    ELSE Returns(NoStatus, <<>>)

(***************************************************************************)
(* The heap holding the boxed handle, with counts of what was done to it.  *)
(***************************************************************************)
FreeCell == [live |-> FALSE, val |-> 0]

\* Box::into_raw(Box::new(handle)) at a fresh address a.
Box_new_not_boxed(m, a, handle) == m

Box_new(m, a, handle) ==
    [m EXCEPT !.heap[a] = [live |-> TRUE, val |-> handle], !.allocs = @ + 1]

\* *Box::from_raw(p): the value is moved out and the storage is released.
Box_from_raw_leaks(m, p) == m

Box_from_raw(m, p) ==
    [m EXCEPT !.heap[p] = FreeCell, !.deallocs = @ + 1]

\* The handle value moved into close_fn is dropped when close_fn returns
\* or unwinds.
drop_handle(m) == [m EXCEPT !.drops = @ + 1]

borrow_write_then_free(m, p, w) ==
    [m EXCEPT !.heap[p] = FreeCell, !.deallocs = @ + 1]

borrow_write_to_copy(m, p, w) == m

\* event_fn leaves the value w in the handle it borrowed through
\* &mut *(handle as *mut H); the borrow ends without freeing anything.
borrow_write(m, p, w) == [m EXCEPT !.heap[p].val = w]

(***************************************************************************)
(* Inputs of the host and behaviours of the user callbacks.                *)
(***************************************************************************)
EventInts == {0 - 1, Up, AuthUserPassVerify, N, N + 1}
ArgvInputs == {NullArray, Array(<< <<"a", "b">> >>)}
EnvpInputs ==
    {NullArray,
     Array(<< <<"k", "=", "v">> >>),
     Array(<< <<"k", "v">> >>),
     Array(<< <<"k", "=", "v">>, <<"k", "=", "=">> >>)}

EventLists ==
    {<<>>, <<"RouteUp", "N">>, <<"AuthUserPassVerify", "Up", "AuthUserPassVerify">>}
UserErrors ==
    {<< Display("plugin error", <<>>) >>,
     << Display("plugin error", <<>>), Display("io error", <<>>) >>}
PanicPayloads ==
    {[ty |-> "&str", msg |-> "boom"], [ty |-> "String", msg |-> "boom"], NoPayload}

OkOutcome(res, events, handle) ==
    [NoOutcome EXCEPT !.k = "ok", !.res = res, !.events = events, !.handle = handle]
ErrOutcome(e) == [NoOutcome EXCEPT !.k = "err", !.e = e]
PanicOutcome(p) == [NoOutcome EXCEPT !.k = "panic", !.payload = p]

FailOutcomes ==
    {ErrOutcome(e) : e \in UserErrors} \cup {PanicOutcome(p) : p \in PanicPayloads}
OpenOutcomes ==
    {OkOutcome("", ev, h) : ev \in EventLists, h \in HandleVals} \cup FailOutcomes
EventOutcomes ==
    {OkOutcome(r, <<>>, 0) : r \in {"Success", "Deferred", "Failure"}} \cup FailOutcomes
CloseOutcomes ==
    {OkOutcome("", <<>>, 0)} \cup {PanicOutcome(p) : p \in PanicPayloads}

(***************************************************************************)
(* State.                                                                  *)
(*   mem     the heap cells and the allocation / deallocation / drop counts*)
(*   retptr  the host's openvpn_plugin_args_open_return                    *)
(*   host    the host's call discipline: its phase, its copy of the handle *)
(*           address, and how many open and event calls it has made        *)
(*   calls   per host thread, the trampoline call in progress              *)
(*   last    the trampoline call that returned last                        *)
(*   hval    history: the handle value as the last callback left it        *)
(*   app     the last application of one of the library's functions to an  *)
(*           argument: the function, the argument and the result           *)
(***************************************************************************)
VARIABLES mem, retptr, host, calls, last, hval, app

vars == <<mem, retptr, host, calls, last, hval, app>>

NoApp == [f |-> "none", arg |-> <<>>, res |-> <<>>]

InitMem ==
    [heap |-> [a \in Addrs |-> FreeCell], allocs |-> 0, deallocs |-> 0, drops |-> 0]

Idle ==
    [pc |-> "idle", kind |-> "none", event_type |-> 0, argv |-> NullArray,
     envp |-> NullArray, handle |-> NULL, decoded |-> FALSE, event |-> "none",
     parsed_args |-> <<>>, parsed_env |-> EmptyMap, owned |-> 0, cb |-> 0,
     outcome |-> NoOutcome, seen |-> 0, expect |-> 0, pre |-> InitMem,
     unwound |-> FALSE, status |-> NoStatus, reports |-> <<>>, aliased |-> FALSE]

Init ==
    /\ mem = InitMem
    /\ retptr = [type_mask |-> 0, handle |-> NULL, written |-> FALSE]
    /\ host = [phase |-> "Unopened", handle |-> NULL, opens |-> 0, events |-> 0]
    /\ calls = [t \in Threads |-> Idle]
    /\ last = Idle
    /\ hval = 0
    /\ app = NoApp

AllIdle == \A t \in Threads : calls[t].pc = "idle"

\* The host calls strictly sequentially: no trampoline call is in progress.
Sequential == AllIdle

Entered(kind, event_type, argv, envp, handle) ==
    [Idle EXCEPT !.kind = kind, !.event_type = event_type, !.argv = argv,
                 !.envp = envp, !.handle = handle, !.expect = hval, !.pre = mem]

Returned(c, exit) ==
    [c EXCEPT !.pc = "returned", !.unwound = exit.unwound, !.status = exit.status,
              !.reports = exit.reports]

\* The closure of openvpn_plugin_func returns or unwinds: handle: &mut H goes
\* out of scope, and the call keeps nothing of it.
borrow_outlives_call(c) == [Idle EXCEPT !.pc = "func_cb", !.handle = c.handle]

borrow_ends(c) == Idle

\* One invocation of the user callback of call c, ending with outcome o.
invoke_again_on_err(c, o) ==
    [c EXCEPT !.cb = @ + (IF o.k = "err" THEN 2 ELSE 1), !.outcome = o]

invoke(c, o) == [c EXCEPT !.cb = @ + 1, !.outcome = o]

(***************************************************************************)
(* openvpn_plugin_open (lib.rs 322-354).  The host calls it while it has   *)
(* no open handle.  Entry decodes args, then env; a decode failure logs    *)
(* and returns ERROR at once.                                              *)
(***************************************************************************)
open_decode(c) ==
    LET parsed_args == string_array(c.argv)
        parsed_env == env(c.envp)
    IN  IF ~parsed_args.ok
        THEN Returned(c, try_or_return_error(parsed_args, "Malformed args from OpenVPN"))
        ELSE IF ~parsed_env.ok
        THEN Returned(c, try_or_return_error(parsed_env, "Malformed env from OpenVPN"))
        ELSE [c EXCEPT !.pc = "open_cb", !.decoded = TRUE,
                       !.parsed_args = parsed_args.val, !.parsed_env = parsed_env.val]

openvpn_plugin_open(t) ==
    /\ Sequential
    /\ host.phase = "Unopened"
    /\ host.opens < MaxOpens
    /\ \E argv \in ArgvInputs, envp \in EnvpInputs :
          LET c == open_decode(Entered("open", 0, argv, envp, NULL))
          IN  IF c.pc = "returned"
              THEN /\ last' = c
                   /\ UNCHANGED calls
              ELSE /\ calls' = [calls EXCEPT ![t] = c]
                   /\ UNCHANGED last
    /\ host' = [host EXCEPT !.opens = @ + 1]
    /\ UNCHANGED <<mem, retptr, hval, app>>

\* open_fn runs inside catch_unwind; the match writes retptr and boxes the
\* handle on Ok(Ok(..)) only (lib.rs 339-353).
open_fn_returns(t) ==
    /\ calls[t].pc = "open_cb"
    /\ \E o \in OpenOutcomes, a \in Addrs :
          LET exit == open_match(catch_unwind(o))
              c == Returned(invoke(calls[t], o), exit)
              success == ~exit.unwound /\ exit.status = OPENVPN_PLUGIN_FUNC_SUCCESS
          IN  /\ ~mem.heap[a].live
              /\ last' = c
              /\ IF success
                 THEN /\ mem' = Box_new(mem, a, o.handle)
                      /\ retptr' = [type_mask |-> events_to_bitmask(o.events),
                                    handle |-> a, written |-> TRUE]
                      /\ host' = [host EXCEPT !.phase = "Open", !.handle = a]
                      /\ hval' = o.handle
                 ELSE UNCHANGED <<mem, retptr, host, hval>>
    /\ calls' = [calls EXCEPT ![t] = Idle]
    /\ UNCHANGED app

(***************************************************************************)
(* openvpn_plugin_func (lib.rs 381-420).  The host calls it with its copy  *)
(* of the handle address while the handle is open.  Entry decodes the      *)
(* event code, then args, then env.                                        *)
(***************************************************************************)
func_decode_args_first(c) ==
    LET event == from_int(c.event_type)
        parsed_args == string_array(c.argv)
        parsed_env == env(c.envp)
    IN  IF ~parsed_args.ok
        THEN Returned(c, try_or_return_error(parsed_args, "Malformed args from OpenVPN"))
        ELSE IF ~event.ok
        THEN Returned(c, try_or_return_error(event, "Invalid event integer"))
        ELSE IF ~parsed_env.ok
        THEN Returned(c, try_or_return_error(parsed_env, "Malformed env from OpenVPN"))
        ELSE [c EXCEPT !.pc = "func_cb", !.decoded = TRUE, !.event = event.val,
                       !.parsed_args = parsed_args.val, !.parsed_env = parsed_env.val]

func_decode(c) ==
    LET event == from_int(c.event_type)
        parsed_args == string_array(c.argv)
        parsed_env == env(c.envp)
    IN  IF ~event.ok
        THEN Returned(c, try_or_return_error(event, "Invalid event integer"))
        ELSE IF ~parsed_args.ok
        THEN Returned(c, try_or_return_error(parsed_args, "Malformed args from OpenVPN"))
        ELSE IF ~parsed_env.ok
        THEN Returned(c, try_or_return_error(parsed_env, "Malformed env from OpenVPN"))
        ELSE [c EXCEPT !.pc = "func_cb", !.decoded = TRUE, !.event = event.val,
                       !.parsed_args = parsed_args.val, !.parsed_env = parsed_env.val]

openvpn_plugin_func(t) ==
    /\ Sequential
    /\ host.phase = "Open"
    /\ host.events < MaxEvents
    /\ \E event_type \in EventInts, argv \in ArgvInputs, envp \in EnvpInputs :
          LET c == func_decode(Entered("func", event_type, argv, envp, host.handle))
          IN  IF c.pc = "returned"
              THEN /\ last' = c
                   /\ UNCHANGED calls
              ELSE /\ calls' = [calls EXCEPT ![t] = c]
                   /\ UNCHANGED last
    /\ host' = [host EXCEPT !.events = @ + 1]
    /\ UNCHANGED <<mem, retptr, hval, app>>

\* event_fn runs inside catch_unwind with &mut H borrowed from the raw
\* address; it may write the handle before it returns, fails or panics.
event_fn_returns(t) ==
    /\ calls[t].pc = "func_cb"
    /\ \E o \in EventOutcomes, w \in HandleVals :
          LET exit == func_match(catch_unwind(o))
              c == [invoke(calls[t], o) EXCEPT !.seen = mem.heap[calls[t].handle].val]
          IN  /\ last' = Returned(c, exit)
              /\ mem' = borrow_write(mem, calls[t].handle, w)
              /\ hval' = w
    /\ calls' = [calls EXCEPT ![t] = borrow_ends(calls[t])]
    /\ UNCHANGED <<retptr, host, app>>

(***************************************************************************)
(* openvpn_plugin_close (lib.rs 362-373).  Entry takes the handle back     *)
(* from the raw address and moves the value out of its box.                *)
(***************************************************************************)
openvpn_plugin_close(t) ==
    /\ Sequential
    /\ host.phase = "Open"
    /\ calls' = [calls EXCEPT ![t] =
                    [Entered("close", 0, NullArray, NullArray, host.handle)
                        EXCEPT !.pc = "close_cb", !.owned = mem.heap[host.handle].val]]
    /\ mem' = Box_from_raw(mem, host.handle)
    /\ host' = [host EXCEPT !.phase = "Closed"]
    /\ UNCHANGED <<retptr, last, hval, app>>

\* close_fn consumes the handle inside catch_unwind; the value is dropped
\* when close_fn returns or unwinds.
close_fn_returns(t) ==
    /\ calls[t].pc = "close_cb"
    /\ \E o \in CloseOutcomes :
          LET exit == close_match(catch_unwind(o))
          IN  last' = Returned(invoke(calls[t], o), exit)
    /\ mem' = drop_handle(mem)
    /\ calls' = [calls EXCEPT ![t] = Idle]
    /\ UNCHANGED <<retptr, host, hval, app>>

Next ==
    \E t \in Threads :
        \/ openvpn_plugin_open(t)
        \/ open_fn_returns(t)
        \/ openvpn_plugin_func(t)
        \/ event_fn_returns(t)
        \/ openvpn_plugin_close(t)
        \/ close_fn_returns(t)

Spec == Init /\ [][Next]_vars

(***************************************************************************)
(* A host that does not keep the sequential discipline: it starts an event *)
(* call or the close call on one thread while a call is in progress on     *)
(* another.  The entry points take no lock (lib.rs 362-420): a call goes   *)
(* ahead whatever the other threads are doing.  aliased records on a call  *)
(* holding the &mut H that another &mut H to the same handle was live at   *)
(* the same time.  A callback that runs on a handle close has reclaimed,   *)
(* or together with another callback on the same handle, reads and writes  *)
(* it with undefined behaviour: what it sees is any value, and a write to  *)
(* reclaimed storage may or may not land there.                            *)
(***************************************************************************)
OverlapArgv == Array(<< <<"a", "b">> >>)
OverlapEnvp == Array(<< <<"k", "=", "v">> >>)

OverlapOutcomes ==
    {OkOutcome("Success", <<>>, 0), ErrOutcome(<< Display("plugin error", <<>>) >>),
     PanicOutcome(NoPayload)}

may_enter_locked(t) == AllIdle

may_enter(t) == calls[t].pc = "idle"

Borrowers(p) == {u \in Threads : calls[u].pc = "func_cb" /\ calls[u].handle = p}

func_overlapping(t) ==
    /\ may_enter(t)
    /\ host.phase = "Open"
    /\ host.events < MaxEvents
    /\ \E event_type \in {Up, N + 1} :
          LET c == func_decode(Entered("func", event_type, OverlapArgv, OverlapEnvp,
                                       host.handle))
              shared == Borrowers(host.handle) # {}
          IN  IF c.pc = "returned"
              THEN /\ last' = c
                   /\ UNCHANGED calls
              ELSE /\ calls' = [u \in Threads |->
                                  IF u = t THEN [c EXCEPT !.aliased = shared]
                                  ELSE IF u \in Borrowers(host.handle)
                                  THEN [calls[u] EXCEPT !.aliased = TRUE]
                                  ELSE calls[u]]
                   /\ UNCHANGED last
    /\ host' = [host EXCEPT !.events = @ + 1]
    /\ UNCHANGED <<mem, retptr, hval, app>>

undefined_read(m, p, undefined) == IF undefined THEN HandleVals ELSE {m.heap[p].val}

write_through_dangling(m, p, w) == {m, [m EXCEPT !.heap[p].val = w]}

event_fn_returns_overlapping(t) ==
    /\ calls[t].pc = "func_cb"
    /\ \E o \in OverlapOutcomes, w \in HandleVals :
          LET p == calls[t].handle
              dangling == ~mem.heap[p].live
              exit == func_match(catch_unwind(o))
          IN  /\ \E r \in undefined_read(mem, p, dangling \/ calls[t].aliased) :
                     last' = Returned([invoke(calls[t], o) EXCEPT !.seen = r], exit)
              /\ IF dangling
                 THEN mem' \in write_through_dangling(mem, p, w)
                 ELSE mem' = borrow_write(mem, p, w)
              /\ hval' = w
    /\ calls' = [calls EXCEPT ![t] = borrow_ends(calls[t])]
    /\ UNCHANGED <<retptr, host, app>>

close_overlapping(t) ==
    /\ may_enter(t)
    /\ host.phase = "Open"
    /\ calls' = [calls EXCEPT ![t] =
                    [Entered("close", 0, NullArray, NullArray, host.handle)
                        EXCEPT !.pc = "close_cb", !.owned = mem.heap[host.handle].val]]
    /\ mem' = Box_from_raw(mem, host.handle)
    /\ host' = [host EXCEPT !.phase = "Closed"]
    /\ UNCHANGED <<retptr, last, hval, app>>

NextOverlap ==
    \E t \in Threads :
        \/ openvpn_plugin_open(t)
        \/ open_fn_returns(t)
        \/ func_overlapping(t)
        \/ event_fn_returns_overlapping(t)
        \/ close_overlapping(t)
        \/ close_fn_returns(t)

SpecOverlap == Init /\ [][NextOverlap]_vars

(***************************************************************************)
(* The library's functions applied to arguments: the parsing functions of  *)
(* ffi/parse.rs on arrays as the host lays them out, from_int on c_int     *)
(* values, events_to_bitmask on lists of events.                           *)
(***************************************************************************)
Alphabet == {"k", "="}
CStrings ==
    UNION {[1 .. n -> Alphabet] : n \in 0 .. MaxStrLen}
    \cup {<<" ", "k", " ">>, <<"k", "v">>, <<"k", "=", "v">>, <<"k", "=", "w">>,
          <<"j", "=", "v">>, <<"k", "=", "v", "=", "w">>, <<"C3", "A9", "=", "v">>,
          <<"k", "=", "C3">>, <<"FF">>, <<"FF", "=", "k">>}

StringLists == UNION {[1 .. n -> CStrings] : n \in 0 .. MaxEntries}

\* What lies behind the NUL of each string and behind the null pointer.
Behind ==
    {[nul |-> <<>>, null |-> <<>>],
     [nul |-> <<"k", NUL>>, null |-> <<StrCell(<<"k", "=", "k">>, <<>>), NullCell>>]}

RawArrays ==
    {NullArray} \cup {ArrayThen(strs, b.nul, b.null) : strs \in StringLists, b \in Behind}

Orders(S) ==
    {o \in [1 .. Cardinality(S) -> S] : \A i, j \in DOMAIN o : o[i] = o[j] => i = j}

CInts == (0 - 3) .. (N + 5) \cup {0 - 2147483647 - 1, 2147483647}

EventSeqs == UNION {[1 .. n -> Variants] : n \in 0 .. MaxEventListLen}

\* An error with its chain of causes, outermost first.
ErrorChains ==
    UNION {[1 .. n -> {Display("plugin error", <<>>), Display("io error", <<>>),
                       Display("No equal sign in", <<"k">>)}] : n \in 1 .. MaxCauses + 1}

\* One application: nothing has been applied yet, and the adapter's state
\* is left alone.
Applied(f, arg, res) == [f |-> f, arg |-> arg, res |-> res]

machine == <<mem, retptr, host, calls, last, hval>>

call_string_array ==
    /\ app.f = "none"
    /\ \E ptr \in RawArrays : app' = Applied("string_array", ptr, string_array(ptr))
    /\ UNCHANGED machine

call_env ==
    /\ app.f = "none"
    /\ \E ptr \in RawArrays : app' = Applied("env", ptr, env(ptr))
    /\ UNCHANGED machine

call_string_array_utf8 ==
    /\ app.f = "none"
    /\ \E strings \in StringLists :
          app' = Applied("string_array_utf8", strings, string_array_utf8(strings))
    /\ UNCHANGED machine

call_env_utf8 ==
    /\ app.f = "none"
    /\ \E strs \in StringLists :
          LET map == env(Array(strs))
          IN  /\ map.ok
              /\ \E order \in Orders(DOMAIN map.val) :
                     app' = Applied("env_utf8", map.val, env_utf8(map.val, order))
    /\ UNCHANGED machine

call_from_int ==
    /\ app.f = "none"
    /\ \E i \in CInts : app' = Applied("from_int", i, from_int(i))
    /\ UNCHANGED machine

call_events_to_bitmask ==
    /\ app.f = "none"
    /\ \E events \in EventSeqs :
          app' = Applied("events_to_bitmask", events, events_to_bitmask(events))
    /\ UNCHANGED machine

call_format_error ==
    /\ app.f = "none"
    /\ \E error \in ErrorChains : app' = Applied("format_error", error, format_error(error))
    /\ UNCHANGED machine

NextPure ==
    \/ call_format_error
    \/ call_string_array
    \/ call_env
    \/ call_string_array_utf8
    \/ call_env_utf8
    \/ call_from_int
    \/ call_events_to_bitmask

SpecPure == Init /\ [][NextPure]_vars

(***************************************************************************)
(* Observations used by the properties.                                    *)
(***************************************************************************)
\* The ownership state of the handle, read off the heap.
OwnerState(m) ==
    IF m.allocs = 0 THEN "Unopened"
    ELSE IF \E a \in Addrs : m.heap[a].live THEN "Open"
    ELSE "Closed"

LiveAddrs(m) == {a \in Addrs : m.heap[a].live}

StatusCodes ==
    {OPENVPN_PLUGIN_FUNC_SUCCESS, OPENVPN_PLUGIN_FUNC_ERROR, OPENVPN_PLUGIN_FUNC_DEFERRED}

\* The event code is outside the recognized range.
UnrecognizedCode(i) == i < Up \/ i > N

HasEqual(s) == \E i \in 1 .. Len(s) : s[i] = "="

\* The strings of a well-formed array: the texts, each up to its NUL, of the
\* cells before the first null cell.
TermIndex(cells) ==
    CHOOSE i \in 1 .. Len(cells) :
        cells[i].nullp /\ \A j \in 1 .. i - 1 : ~cells[j].nullp

TextOf(bytes) ==
    LET n == CHOOSE n \in 1 .. Len(bytes) :
                 bytes[n] = NUL /\ \A j \in 1 .. n - 1 : bytes[j] # NUL
    IN  SubSeq(bytes, 1, n - 1)

EntriesOf(ptr) ==
    [i \in 1 .. TermIndex(ptr.cells) - 1 |-> TextOf(ptr.cells[i].bytes)]

\* The argument or environment array does not decode.
AbiMalformed(c) ==
    \/ c.argv.null
    \/ c.envp.null
    \/ \E i \in 1 .. Len(EntriesOf(c.envp)) : ~HasEqual(EntriesOf(c.envp)[i])

\* The integer whose bit i is set iff event i occurs in the list.
RECURSIVE SumPow2(_)
SumPow2(S) ==
    IF S = {} THEN 0
    ELSE LET x == CHOOSE y \in S : TRUE IN 2 ^ x + SumPow2(S \ {x})

BitmaskOf(events) == SumPow2({as_int(events[i]) : i \in 1 .. Len(events)})

(***************************************************************************)
(* C1: one successful open, then N event calls of any outcome, then one    *)
(* close perform exactly one handle allocation and exactly one handle      *)
(* deallocation in total, whatever N and the outcomes were.                *)
(***************************************************************************)
C1_OneAllocOneDealloc ==
    (host.phase = "Closed" /\ AllIdle) => (mem.allocs = 1 /\ mem.deallocs = 1)

C1_Witness ==
    /\ host.phase = "Closed"
    /\ AllIdle
    /\ host.events = MaxEvents
    /\ last.kind = "close"
    /\ mem.allocs = 1
    /\ mem.deallocs = 1

(***************************************************************************)
(* C2: from the return of a successful open until the start of close the   *)
(* host's handle address refers to exactly one live allocation; no open    *)
(* and no event call frees it, only close does, and never twice.           *)
(***************************************************************************)
C2_OneLiveAllocationWhileOpen ==
    /\ host.phase = "Open" =>
          /\ LiveAddrs(mem) = {host.handle}
          /\ mem.allocs = 1
          /\ mem.deallocs = 0
    /\ host.phase = "Unopened" => (LiveAddrs(mem) = {} /\ mem.deallocs = 0)
    /\ mem.deallocs <= 1

C2_Witness ==
    /\ host.phase = "Open"
    /\ AllIdle
    /\ host.events = MaxEvents
    /\ last.kind = "func"
    /\ last.outcome.k = "panic"
    /\ LiveAddrs(mem) = {host.handle}

(***************************************************************************)
(* C3: a panic of the open or event callback does not unwind out of        *)
(* openvpn_plugin_open / openvpn_plugin_func: the call returns ERROR, and  *)
(* whatever the inputs and the callback do these two return one of         *)
(* SUCCESS, ERROR, DEFERRED.                                               *)
(***************************************************************************)
C3_PanicNeverCrosses ==
    last.kind \in {"open", "func"} =>
        /\ ~last.unwound
        /\ last.status \in StatusCodes
        /\ last.outcome.k = "panic" => last.status = OPENVPN_PLUGIN_FUNC_ERROR

C3_Witness ==
    /\ last.kind = "open"
    /\ last.outcome.k = "panic"
    /\ last.status = OPENVPN_PLUGIN_FUNC_ERROR
    /\ ~last.unwound

(***************************************************************************)
(* C4: when the event callback returns normally, Success gives SUCCESS,    *)
(* Deferred gives DEFERRED and Failure gives ERROR, and on Failure the     *)
(* report sink is not invoked.                                             *)
(***************************************************************************)
C4_EventResultMapping ==
    (last.kind = "func" /\ last.outcome.k = "ok") =>
        /\ last.outcome.res = "Success" => last.status = OPENVPN_PLUGIN_FUNC_SUCCESS
        /\ last.outcome.res = "Deferred" => last.status = OPENVPN_PLUGIN_FUNC_DEFERRED
        /\ last.outcome.res = "Failure" =>
              (last.status = OPENVPN_PLUGIN_FUNC_ERROR /\ last.reports = <<>>)

C4_Witness ==
    /\ last.kind = "func"
    /\ last.outcome.k = "ok"
    /\ last.outcome.res = "Deferred"
    /\ last.status = OPENVPN_PLUGIN_FUNC_DEFERRED

(***************************************************************************)
(* C5: when the open or the event callback returns Err(e), the report sink *)
(* is invoked exactly once, with e, and the call returns ERROR.            *)
(***************************************************************************)
C5_CallbackErrorReportedOnce ==
    (last.kind \in {"open", "func"} /\ last.outcome.k = "err") =>
        /\ Len(last.reports) = 1
        /\ last.reports[1].sink = "error"
        /\ Len(last.reports[1].lines) = Len(last.outcome.e)
        /\ \A j \in 1 .. Len(last.outcome.e) :
              last.reports[1].lines[j].display = last.outcome.e[j]
        /\ last.status = OPENVPN_PLUGIN_FUNC_ERROR

C5_Witness ==
    /\ last.kind = "open"
    /\ last.outcome.k = "err"
    /\ Len(last.outcome.e) = 2
    /\ Len(last.reports) = 1

(***************************************************************************)
(* C6: when the open callback returns Ok((events, handle)), the output     *)
(* struct gets the bitmask of the events and the address of a fresh heap   *)
(* allocation holding the handle, the call returns SUCCESS, the ownership  *)
(* state goes from Unopened to Open, and no call record keeps the address. *)
(***************************************************************************)
C6_SuccessfulOpen ==
    (last.kind = "open" /\ last.outcome.k = "ok") =>
        /\ last.status = OPENVPN_PLUGIN_FUNC_SUCCESS
        /\ retptr.written
        /\ retptr.type_mask = BitmaskOf(last.outcome.events)
        /\ retptr.handle \in Addrs
        /\ ~last.pre.heap[retptr.handle].live
        /\ OwnerState(last.pre) = "Unopened"
        /\ host.phase # "Unopened"
        /\ (host.phase = "Open" /\ AllIdle) =>
              /\ mem.heap[retptr.handle] = [live |-> TRUE, val |-> last.outcome.handle]
              /\ mem.allocs = last.pre.allocs + 1
              /\ OwnerState(mem) = "Open"
              /\ \A t \in Threads : calls[t].handle = NULL

C6_Witness ==
    /\ last.kind = "open"
    /\ last.outcome.k = "ok"
    /\ last.outcome.events = <<"AuthUserPassVerify", "Up", "AuthUserPassVerify">>
    /\ retptr.type_mask = 33
    /\ host.phase = "Open"
    /\ AllIdle
    /\ mem.heap[retptr.handle].live

(***************************************************************************)
(* C7: close takes the handle back, calls the close callback exactly once  *)
(* with the handle by value and returns without unwinding also when the    *)
(* callback panics; a panic is reported, the handle is destroyed exactly   *)
(* once, and the ownership state afterwards is Closed.                     *)
(***************************************************************************)
C7_CloseAlwaysCompletes ==
    /\ \A t \in Threads : calls[t].pc = "close_cb" => ENABLED close_fn_returns(t)
    /\ last.kind = "close" =>
          /\ ~last.unwound
          /\ last.cb = 1
          /\ last.owned = last.expect
          /\ mem.deallocs = 1
          /\ mem.drops = 1
          /\ LiveAddrs(mem) = {}
          /\ OwnerState(mem) = "Closed"
          /\ last.outcome.k = "panic" =>
                /\ Len(last.reports) = 1
                /\ last.reports[1].sink = "panic"
                /\ last.reports[1].source = "plugin close"
          /\ last.outcome.k = "ok" => last.reports = <<>>

C7_Witness ==
    /\ last.kind = "close"
    /\ last.outcome.k = "panic"
    /\ mem.drops = 1
    /\ mem.deallocs = 1
    /\ OwnerState(mem) = "Closed"

(***************************************************************************)
(* C8: the handle value made by the open callback is the one every event   *)
(* callback sees, as the earlier event callbacks left it; an event call,   *)
(* also one ending in Failure, an error or a panic, does not destroy it    *)
(* and leaves the address valid; the close callback gets the value as the  *)
(* last event call left it.                                                *)
(***************************************************************************)
C8_SameHandleThreaded ==
    /\ (last.kind = "func" /\ last.cb = 1) => last.seen = last.expect
    /\ (host.phase = "Open" /\ AllIdle) =>
          mem.heap[host.handle] = [live |-> TRUE, val |-> hval]
    /\ \A t \in Threads :
          /\ calls[t].pc = "func_cb" => mem.heap[calls[t].handle].live
          /\ calls[t].pc = "close_cb" => calls[t].owned = hval
    /\ last.kind = "close" => last.owned = hval

C8_Witness ==
    /\ last.kind = "func"
    /\ last.cb = 1
    /\ last.outcome.k = "panic"
    /\ host.events = MaxEvents
    /\ host.phase = "Open"
    /\ AllIdle
    /\ last.seen = last.expect
    /\ last.seen # hval
    /\ mem.heap[host.handle] = [live |-> TRUE, val |-> hval]

(***************************************************************************)
(* C9: an event call with an unrecognized event code returns ERROR without *)
(* calling the event callback and without touching the handle, which stays *)
(* Open and usable by later event calls.                                   *)
(***************************************************************************)
C9_InvalidEventCode ==
    (last.kind = "func" /\ UnrecognizedCode(last.event_type)) =>
        /\ last.status = OPENVPN_PLUGIN_FUNC_ERROR
        /\ last.cb = 0
        /\ ~last.decoded
        /\ (host.phase = "Open" /\ AllIdle) =>
              /\ mem = last.pre
              /\ mem.heap[host.handle].live
              /\ OwnerState(mem) = "Open"
              /\ host.events < MaxEvents => \E t \in Threads : ENABLED openvpn_plugin_func(t)

C9_Witness ==
    /\ last.kind = "func"
    /\ last.event_type = N + 1
    /\ last.status = OPENVPN_PLUGIN_FUNC_ERROR
    /\ last.cb = 0
    /\ host.phase = "Open"
    /\ host.events = 1

(***************************************************************************)
(* C10: a null argument or environment array, or an environment entry      *)
(* without '=', makes open and event return ERROR without calling the user *)
(* callback; open then allocates nothing and stays Unopened, event leaves  *)
(* the handle untouched and Open.                                          *)
(***************************************************************************)
C10_AbiDecodeFailure ==
    (last.kind \in {"open", "func"} /\ AbiMalformed(last)) =>
        /\ last.status = OPENVPN_PLUGIN_FUNC_ERROR
        /\ last.cb = 0
        /\ ~last.decoded
        /\ last.kind = "open" =>
              /\ mem = InitMem
              /\ OwnerState(mem) = "Unopened"
              /\ host.phase = "Unopened"
              /\ ~retptr.written
        /\ (last.kind = "func" /\ host.phase = "Open" /\ AllIdle) =>
              /\ mem = last.pre
              /\ mem.heap[host.handle].live
              /\ OwnerState(mem) = "Open"

C10_Witness ==
    /\ last.kind = "func"
    /\ ~UnrecognizedCode(last.event_type)
    /\ ~last.argv.null
    /\ last.envp = Array(<< <<"k", "v">> >>)
    /\ last.status = OPENVPN_PLUGIN_FUNC_ERROR
    /\ host.phase = "Open"

(***************************************************************************)
(* Observations on the parsing functions.                                  *)
(***************************************************************************)
\* The index of the first '=' of an entry that has one.
FirstEqual(e) ==
    CHOOSE i \in 1 .. Len(e) : e[i] = "=" /\ \A j \in 1 .. i - 1 : e[j] # "="

KeyOf(e) == SubSeq(e, 1, FirstEqual(e) - 1)
ValueOf(e) == SubSeq(e, FirstEqual(e) + 1, Len(e))

\* The indices of the entries without '='.
BadEntries(E) == {i \in 1 .. Len(E) : ~HasEqual(E[i])}

(***************************************************************************)
(* C11: for a well-formed null-terminated pointer array string_array       *)
(* returns exactly the strings before the terminator, in order and         *)
(* unmodified, as many as there are non-null pointers before it (none for  *)
(* an array of the terminator alone); a null array pointer gives NullPtr.  *)
(***************************************************************************)
C11_StringArray ==
    app.f = "string_array" =>
        IF app.arg.null
        THEN ~app.res.ok /\ app.res.err = NullPtr
        ELSE /\ app.res.ok
             /\ app.res.val = EntriesOf(app.arg)
             /\ Len(app.res.val) = TermIndex(app.arg.cells) - 1
             /\ app.arg.cells[1].nullp => app.res.val = <<>>

C11_Witness ==
    /\ app.f = "string_array"
    /\ ~app.arg.null
    /\ Len(app.arg.cells) > 3
    /\ Len(app.arg.cells[1].bytes) > 4
    /\ app.res.ok
    /\ app.res.val = << <<" ", "k", " ">>, <<"k", "=">> >>

(***************************************************************************)
(* C12: for every key without '=' and every value (which may contain '='   *)
(* or be empty), env of the one-entry array [key=value] is the map holding *)
(* exactly the pair (key, value): the entry is split at its first '='.     *)
(***************************************************************************)
C12_EnvSinglePair ==
    (app.f = "env" /\ ~app.arg.null /\ Len(EntriesOf(app.arg)) = 1) =>
        LET e == EntriesOf(app.arg)[1]
        IN  \A i \in 1 .. Len(e) :
                (e[i] = "=" /\ ~HasEqual(SubSeq(e, 1, i - 1))) =>
                    /\ app.res.ok
                    /\ DOMAIN app.res.val = {SubSeq(e, 1, i - 1)}
                    /\ app.res.val[SubSeq(e, 1, i - 1)] = SubSeq(e, i + 1, Len(e))

C12_Witness ==
    /\ app.f = "env"
    /\ ~app.arg.null
    /\ EntriesOf(app.arg) = << <<"k", "=", "v", "=", "w">> >>
    /\ app.res.ok
    /\ DOMAIN app.res.val = {<<"k">>}
    /\ app.res.val[<<"k">>] = <<"v", "=", "w">>

(***************************************************************************)
(* C13: when several entries share a key the map holds the key once, with  *)
(* the value of the last such entry; the map has as many pairs as the      *)
(* input has distinct keys.                                                *)
(***************************************************************************)
C13_EnvLastWins ==
    (app.f = "env" /\ app.res.ok) =>
        LET E == EntriesOf(app.arg)
            keys == {KeyOf(E[i]) : i \in 1 .. Len(E)}
        IN  /\ DOMAIN app.res.val = keys
            /\ Cardinality(DOMAIN app.res.val) = Cardinality(keys)
            /\ \A i \in 1 .. Len(E) :
                  (\A j \in i + 1 .. Len(E) : KeyOf(E[j]) # KeyOf(E[i])) =>
                      app.res.val[KeyOf(E[i])] = ValueOf(E[i])

C13_Witness ==
    /\ app.f = "env"
    /\ ~app.arg.null
    /\ EntriesOf(app.arg) = << <<"k", "=", "v">>, <<"k", "=", "w">> >>
    /\ app.res.ok
    /\ DOMAIN app.res.val = {<<"k">>}
    /\ app.res.val[<<"k">>] = <<"w">>

(***************************************************************************)
(* C14: if an entry of the environment array has no '=', env fails with    *)
(* NoEqual carrying the text of the first such entry in array order and    *)
(* returns no map, whatever entries precede or follow it.                  *)
(***************************************************************************)
C14_EnvNoEqual ==
    (app.f = "env" /\ ~app.arg.null /\ BadEntries(EntriesOf(app.arg)) # {}) =>
        LET E == EntriesOf(app.arg)
            first == CHOOSE i \in BadEntries(E) : \A j \in BadEntries(E) : i <= j
        IN  /\ ~app.res.ok
            /\ Len(app.res.err) = 1
            /\ app.res.err[1].arg = E[first]
            /\ app.res.val = <<>>

C14_Witness ==
    /\ app.f = "env"
    /\ ~app.arg.null
    /\ EntriesOf(app.arg) = << <<"k", "=", "v">>, <<"k", "v">> >>
    /\ ~app.res.ok
    /\ app.res.err = << Display("No equal sign in", <<"k", "v">>) >>

(***************************************************************************)
(* Observations on the event type.                                         *)
(***************************************************************************)
Bit(n, i) == (n \div (2 ^ i)) % 2 = 1

(***************************************************************************)
(* C15: events_to_bitmask returns the integer whose bit i is set exactly   *)
(* when the event with discriminant i occurs in the list; the empty list   *)
(* gives 0, [Up] 1, [RouteUp] 4 and [RouteUp, RoutePredown] 4096 + 4.       *)
(***************************************************************************)
C15_EventsToBitmask ==
    app.f = "events_to_bitmask" =>
        /\ app.res \in 0 .. 2 ^ 14 - 1
        /\ \A i \in 0 .. 30 :
              Bit(app.res, i) <=> \E j \in 1 .. Len(app.arg) : as_int(app.arg[j]) = i
        /\ app.arg = <<>> => app.res = 0
        /\ app.arg = <<"Up">> => app.res = 1
        /\ app.arg = <<"RouteUp">> => app.res = 4
        /\ app.arg = <<"RouteUp", "RoutePredown">> => app.res = 4100

C15_Witness ==
    /\ app.f = "events_to_bitmask"
    /\ app.arg = <<"RoutePredown", "RoutePredown">>
    /\ app.res = 4096

(***************************************************************************)
(* C16: from_int inverts the discriminant: from_int(as_int(e)) = e for     *)
(* every variant e; for every negative i and every i above the highest     *)
(* discriminant it fails with InvalidEnumVariant carrying i.               *)
(***************************************************************************)
C16_FromIntInverts ==
    app.f = "from_int" =>
        /\ \A e \in Variants :
              app.arg = OpenVpnPluginEvent[e] => app.res.ok /\ app.res.val = e
        /\ (app.arg < 0 \/ \A e \in Variants : app.arg > OpenVpnPluginEvent[e]) =>
              /\ ~app.res.ok
              /\ Len(app.res.err) = 1
              /\ app.res.err[1].arg = <<ToString(app.arg)>>

C16_Witness ==
    /\ app.f = "from_int"
    /\ app.arg = 13
    /\ app.res.ok
    /\ app.res.val = "N"

(***************************************************************************)
(* C17, as stated: the recognized codes are those of the protocol table    *)
(* Up=0 .. RoutePredown=12, ClientConnectDefer=13, ClientConnectDeferV2=14,*)
(* ClientCrResponse=15, and from_int(i) yields the table's event for every *)
(* i in 0..15.                                                             *)
(***************************************************************************)
ProtocolTable ==
    << "Up", "Down", "RouteUp", "IpChange", "TlsVerify", "AuthUserPassVerify",
       "ClientConnect", "ClientDisconnect", "LearnAddress", "ClientConnectV2",
       "TlsFinal", "EnablePf", "RoutePredown", "ClientConnectDefer",
       "ClientConnectDeferV2", "ClientCrResponse" >>

C17_Original ==
    (app.f = "from_int" /\ app.arg \in 0 .. 15) =>
        app.res.ok /\ app.res.val = ProtocolTable[app.arg + 1]

(***************************************************************************)
(* C17, amended: from_int(i) yields the table's event for every i in       *)
(* 0..12, the variant N for 13, and fails for 14, 15 and 16.               *)
(***************************************************************************)
C17_RecognizedCodes ==
    app.f = "from_int" =>
        /\ app.arg \in 0 .. 12 => app.res.ok /\ app.res.val = ProtocolTable[app.arg + 1]
        /\ app.arg = 13 => app.res.ok /\ app.res.val = "N"
        /\ app.arg \in 14 .. 16 => ~app.res.ok

C17_Witness ==
    /\ app.f = "from_int"
    /\ app.arg = 14
    /\ ~app.res.ok

(***************************************************************************)
(* Observations on UTF-8 decoding, stated without the decoder.             *)
(***************************************************************************)
ValidUtf8(b) ==
    \A i \in 1 .. Len(b) :
        \/ b[i] \in Ascii
        \/ b[i] \in Lead2 /\ i < Len(b) /\ b[i + 1] \in Continuation
        \/ b[i] \in Continuation /\ i > 1 /\ b[i - 1] \in Lead2

\* The length of the longest prefix that is valid UTF-8.
ValidPrefix(b) ==
    CHOOSE n \in 0 .. Len(b) :
        /\ ValidUtf8(SubSeq(b, 1, n))
        /\ \A m \in n + 1 .. Len(b) : ~ValidUtf8(SubSeq(b, 1, m))

RECURSIVE AsBytes(_)
AsBytes(chars) == IF chars = <<>> THEN <<>> ELSE Head(chars) \o AsBytes(Tail(chars))

FirstInvalid(strings) ==
    CHOOSE i \in 1 .. Len(strings) :
        /\ ~ValidUtf8(strings[i])
        /\ \A j \in 1 .. i - 1 : ValidUtf8(strings[j])

AllValid(strings) == \A i \in 1 .. Len(strings) : ValidUtf8(strings[i])

MapValid(map) == \A k \in DOMAIN map : ValidUtf8(k) /\ ValidUtf8(map[k])

\* Success exactly on valid input, with the same strings (pairs) as output.
Utf8SuccessExactly ==
    /\ app.f = "string_array_utf8" =>
          /\ app.res.ok <=> AllValid(app.arg)
          /\ app.res.ok =>
                /\ Len(app.res.val) = Len(app.arg)
                /\ \A i \in 1 .. Len(app.arg) : AsBytes(app.res.val[i]) = app.arg[i]
    /\ app.f = "env_utf8" =>
          /\ app.res.ok <=> MapValid(app.arg)
          /\ app.res.ok =>
                /\ {AsBytes(c) : c \in DOMAIN app.res.val} = DOMAIN app.arg
                /\ Cardinality(DOMAIN app.res.val) = Cardinality(DOMAIN app.arg)
                /\ \A c \in DOMAIN app.res.val :
                      AsBytes(app.res.val[c]) = app.arg[AsBytes(c)]

(***************************************************************************)
(* C18, as stated: string_array_utf8 and env_utf8 succeed exactly when     *)
(* every entry is valid UTF-8, with the same strings as output, and a      *)
(* failure names the offending entry: two inputs that fail with the same   *)
(* error have the same offending entry.                                    *)
(***************************************************************************)
C18_Original ==
    /\ Utf8SuccessExactly
    /\ (app.f = "string_array_utf8" /\ ~app.res.ok) =>
          \A other \in StringLists :
              (~AllValid(other) /\ string_array_utf8(other).err = app.res.err) =>
                  other[FirstInvalid(other)] = app.arg[FirstInvalid(app.arg)]

(***************************************************************************)
(* C18, amended: success exactly on valid input with the same strings as   *)
(* output; a failure is the Utf8Error of an invalid entry (for the array   *)
(* the first one, for the environment a key or value the map holds), which *)
(* carries the length of that entry's valid prefix and no text.            *)
(***************************************************************************)
C18_Utf8Decoding ==
    /\ Utf8SuccessExactly
    /\ (app.f = "string_array_utf8" /\ ~app.res.ok) =>
          /\ app.res.val = <<>>
          /\ DOMAIN app.res.err = {"valid_up_to", "error_len"}
          /\ app.res.err.valid_up_to = ValidPrefix(app.arg[FirstInvalid(app.arg)])
    /\ (app.f = "env_utf8" /\ ~app.res.ok) =>
          /\ app.res.val = <<>>
          /\ DOMAIN app.res.err = {"valid_up_to", "error_len"}
          /\ \E k \in DOMAIN app.arg : \E bad \in {k, app.arg[k]} :
                ~ValidUtf8(bad) /\ app.res.err.valid_up_to = ValidPrefix(bad)

C18_Witness ==
    /\ app.f = "string_array_utf8"
    /\ app.arg = << <<"k", "=", "v">>, <<"FF", "=", "k">> >>
    /\ ~app.res.ok
    /\ app.res.err = [valid_up_to |-> 0, error_len |-> 1]

C18_WitnessEnv ==
    /\ app.f = "env_utf8"
    /\ DOMAIN app.arg = {<<"k">>, <<"FF">>}
    /\ ~app.res.ok

(***************************************************************************)
(* C19, as stated: openvpn_plugin_func returns DEFERRED only on event      *)
(* calls whose event type is AuthUserPassVerify, for every event type and  *)
(* every callback result.                                                  *)
(***************************************************************************)
C19_Original ==
    (last.kind = "func" /\ last.status = OPENVPN_PLUGIN_FUNC_DEFERRED) =>
        last.event = "AuthUserPassVerify"

(***************************************************************************)
(* C19, amended: openvpn_plugin_func returns DEFERRED exactly when the     *)
(* event callback returns Ok(Deferred), whatever the event type; that only *)
(* AuthUserPassVerify may defer is left to the callback.                   *)
(***************************************************************************)
C19_DeferredFollowsCallback ==
    last.kind = "func" =>
        (last.status = OPENVPN_PLUGIN_FUNC_DEFERRED
            <=> (last.cb = 1 /\ last.outcome.k = "ok" /\ last.outcome.res = "Deferred"))

C19_Witness ==
    /\ last.kind = "func"
    /\ last.event = "Up"
    /\ last.outcome.k = "ok"
    /\ last.outcome.res = "Deferred"
    /\ last.status = OPENVPN_PLUGIN_FUNC_DEFERRED

(***************************************************************************)
(* C20: no call invokes its user callback more than once: close invokes it *)
(* exactly once, open and event exactly once when decoding succeeds and    *)
(* not at all otherwise, also when the callback returns an error or panics.*)
(***************************************************************************)
C20_NoRetries ==
    /\ \A t \in Threads : calls[t].cb = 0
    /\ last.cb <= 1
    /\ last.kind = "close" => last.cb = 1
    /\ last.kind = "open" => (last.cb = 1 <=> ~AbiMalformed(last))
    /\ last.kind = "func" =>
          (last.cb = 1 <=> (~AbiMalformed(last) /\ ~UnrecognizedCode(last.event_type)))
    /\ last.outcome.k \in {"err", "panic"} => last.cb = 1

C20_Witness ==
    /\ last.kind = "func"
    /\ last.outcome.k = "err"
    /\ last.cb = 1
    /\ last.status = OPENVPN_PLUGIN_FUNC_ERROR
    /\ host.phase = "Open"

(***************************************************************************)
(* C21, as stated: a panic caught in a user callback is reported exactly   *)
(* once, with the stage name and the panic's string payload, and with the  *)
(* placeholder "no panic message" when the payload is not a string.        *)
(***************************************************************************)
StageName(kind) ==
    IF kind = "open" THEN "plugin open"
    ELSE IF kind = "func" THEN "plugin func"
    ELSE "plugin close"

C21_Original ==
    (last.cb = 1 /\ last.outcome.k = "panic") =>
        /\ Len(last.reports) = 1
        /\ last.reports[1].sink = "panic"
        /\ last.reports[1].source = StageName(last.kind)
        /\ last.reports[1].msg =
              IF last.outcome.payload.ty \in {"&str", "String"}
              THEN last.outcome.payload.msg
              ELSE "no panic message"

(***************************************************************************)
(* C21, amended: a panic caught in a user callback is reported exactly     *)
(* once, with the stage name and, when the payload is a &str, that string; *)
(* for any other payload (a String, or no string at all) the reported      *)
(* message is empty.                                                       *)
(***************************************************************************)
C21_PanicReport ==
    (last.cb = 1 /\ last.outcome.k = "panic") =>
        /\ Len(last.reports) = 1
        /\ last.reports[1].sink = "panic"
        /\ last.reports[1].source = StageName(last.kind)
        /\ last.reports[1].msg =
              IF last.outcome.payload.ty = "&str" THEN last.outcome.payload.msg ELSE ""

C21_Witness ==
    /\ last.kind = "close"
    /\ last.outcome.k = "panic"
    /\ last.outcome.payload = [ty |-> "String", msg |-> "boom"]
    /\ Len(last.reports) = 1
    /\ last.reports[1].source = "plugin close"
    /\ last.reports[1].msg = ""

(***************************************************************************)
(* C22: format_error renders an error with k causes as k + 1 lines: the    *)
(* summary line of the error itself, then one line per cause, from the     *)
(* outermost cause to the innermost, line j + 1 describing the j-th cause. *)
(***************************************************************************)
C22_FormatError ==
    app.f = "format_error" =>
        /\ Len(app.res) = Len(app.arg)
        /\ app.res[1] = [prefix |-> "Error: ", display |-> app.arg[1]]
        /\ \A j \in 1 .. Len(app.arg) - 1 :
              app.res[j + 1] = [prefix |-> "Caused by: ", display |-> app.arg[j + 1]]

C22_Witness ==
    /\ app.f = "format_error"
    /\ Len(app.arg) = 3
    /\ Len(app.res) = 3
    /\ app.res[3] = [prefix |-> "Caused by: ", display |-> Display("io error", <<>>)]
    /\ app.res[2].display = Display("No equal sign in", <<"k">>)

(***************************************************************************)
(* C23: the adapter takes no lock.  When the host overlaps calls, an idle  *)
(* thread can always start an event call or the close call on the open     *)
(* handle while another call is in progress, and close reclaims the handle *)
(* without waiting for the event calls that hold a borrow of it.  So a     *)
(* state with two live mutable borrows of the handle is reachable, and so  *)
(* is one where an event call holds a borrow of a reclaimed handle.        *)
(***************************************************************************)
C23_NoLocking ==
    /\ \A t \in Threads :
          (calls[t].pc = "idle" /\ host.phase = "Open") =>
              /\ ENABLED close_overlapping(t)
              /\ host.events < MaxEvents => ENABLED func_overlapping(t)
    /\ \A t \in Threads :
          (calls[t].pc = "func_cb" /\ host.phase = "Closed") =>
              ~mem.heap[calls[t].handle].live
    /\ \A t \in Threads :
          (calls[t].pc = "func_cb" /\ Cardinality(Borrowers(calls[t].handle)) > 1) =>
              calls[t].aliased

TwoLiveBorrows ==
    \E t, u \in Threads :
        /\ t # u
        /\ calls[t].pc = "func_cb"
        /\ calls[u].pc = "func_cb"
        /\ calls[t].handle = calls[u].handle
        /\ mem.heap[calls[t].handle].live

C23_Witness ==
    \E t, u \in Threads :
        /\ calls[t].pc = "func_cb"
        /\ calls[t].aliased
        /\ calls[u].pc = "close_cb"
        /\ calls[u].handle = calls[t].handle
        /\ ~mem.heap[calls[t].handle].live

(***************************************************************************)
(* C24: under the sequential discipline at most one call holds the handle  *)
(* (an event call its &mut H, close the value it took back) at any moment, *)
(* none does when no call is in progress, and the step in which an event   *)
(* call returns ends its borrow, also when the callback returned an error  *)
(* or panicked.                                                            *)
(***************************************************************************)
HandleHolders == {t \in Threads : calls[t].pc \in {"func_cb", "close_cb"}}

C24_AtMostOneReference ==
    /\ [](Cardinality(HandleHolders) <= 1)
    /\ [](AllIdle => HandleHolders = {})
    /\ [](\A t \in Threads : calls[t].pc = "open_cb" => LiveAddrs(mem) = {})
    /\ [][\A t \in Threads :
            calls[t].pc = "func_cb" =>
                (last'.kind = "func" /\ last'.cb = 1 /\ HandleHolders' = {})]_vars

C24_Witness ==
    /\ last.kind = "func"
    /\ last.cb = 1
    /\ last.outcome.k = "panic"
    /\ host.phase = "Open"
    /\ HandleHolders = {}
    /\ LiveAddrs(mem) = {host.handle}

(***************************************************************************)
(* C25: an open that fails in decoding, or whose callback returns an error *)
(* or panics, returns ERROR, leaves the output struct as it was (neither   *)
(* type_mask nor handle written), allocates nothing and stays Unopened;    *)
(* the output struct changes only in a step in which open returns SUCCESS. *)
(***************************************************************************)
OpenFailed(c) == c.kind = "open" /\ (AbiMalformed(c) \/ c.outcome.k \in {"err", "panic"})

C25_FailedOpenWritesNothing ==
    /\ [](OpenFailed(last) =>
            /\ last.status = OPENVPN_PLUGIN_FUNC_ERROR
            /\ ~retptr.written
            /\ retptr.type_mask = 0
            /\ retptr.handle = NULL
            /\ mem = InitMem
            /\ OwnerState(mem) = "Unopened"
            /\ host.phase = "Unopened")
    /\ []((last.kind = "open" /\ last.status = OPENVPN_PLUGIN_FUNC_ERROR) => OpenFailed(last))
    /\ [][(retptr' # retptr \/ mem'.allocs # mem.allocs) =>
             /\ last'.kind = "open"
             /\ last'.status = OPENVPN_PLUGIN_FUNC_SUCCESS
             /\ last'.outcome.k = "ok"
             /\ retptr'.written]_vars

C25_Witness ==
    /\ last.kind = "open"
    /\ last.outcome.k = "panic"
    /\ last.status = OPENVPN_PLUGIN_FUNC_ERROR
    /\ host.opens = 2
    /\ ~retptr.written
    /\ OwnerState(mem) = "Unopened"

(***************************************************************************)
(* Observations on decoding: which inputs of a call fail to decode, and    *)
(* the text each failure displays as.                                      *)
(***************************************************************************)
BadEvent(c) == c.kind = "func" /\ UnrecognizedCode(c.event_type)
BadArgs(c) == c.argv.null
BadEnv(c) ==
    \/ c.envp.null
    \/ \E i \in 1 .. Len(EntriesOf(c.envp)) : ~HasEqual(EntriesOf(c.envp)[i])

DecodeFails(c) == BadEvent(c) \/ BadArgs(c) \/ BadEnv(c)

EnvErrorText(c) ==
    IF c.envp.null THEN [text |-> "Input is null pointer", arg |-> <<>>]
    ELSE LET E == EntriesOf(c.envp)
             first == CHOOSE i \in BadEntries(E) : \A j \in BadEntries(E) : i <= j
         IN  [text |-> "No equal sign in", arg |-> E[first]]

DecodeErrorTexts(c) ==
    (IF BadEvent(c)
     THEN {[text |-> "is not a valid OPENVPN_PLUGIN_* constant",
            arg |-> <<ToString(c.event_type)>>]}
     ELSE {})
    \cup (IF BadArgs(c) THEN {[text |-> "Input is null pointer", arg |-> <<>>]} ELSE {})
    \cup (IF BadEnv(c) THEN {EnvErrorText(c)} ELSE {})

(***************************************************************************)
(* C26: a call of open or event invokes the report sink at most once:      *)
(* exactly once when decoding fails, with an error whose cause chain holds *)
(* the underlying decode error, and not at all when the call returns       *)
(* SUCCESS or DEFERRED.                                                    *)
(***************************************************************************)
C26_ReportAtMostOnce ==
    last.kind \in {"open", "func"} =>
        /\ Len(last.reports) <= 1
        /\ DecodeFails(last) =>
              /\ Len(last.reports) = 1
              /\ last.reports[1].sink = "error"
              /\ Len(last.reports[1].lines) = 2
              /\ last.reports[1].lines[2].prefix = "Caused by: "
              /\ last.reports[1].lines[2].display \in DecodeErrorTexts(last)
              /\ last.status = OPENVPN_PLUGIN_FUNC_ERROR
        /\ last.status \in {OPENVPN_PLUGIN_FUNC_SUCCESS, OPENVPN_PLUGIN_FUNC_DEFERRED} =>
              last.reports = <<>>

C26_Witness ==
    /\ last.kind = "open"
    /\ ~last.argv.null
    /\ last.envp = Array(<< <<"k", "v">> >>)
    /\ Len(last.reports) = 1
    /\ last.reports[1].lines[2].display = [text |-> "No equal sign in", arg |-> <<"k", "v">>]

(***************************************************************************)
(* C27: event decodes the event code, then the argument array, then the    *)
(* environment array, and stops at the first failure; only after all three *)
(* is the callback run.  A call with an invalid code and malformed args or *)
(* env reports the invalid code alone; a call with a null argument array   *)
(* and a malformed environment reports the malformed args alone.  Open     *)
(* decodes args before env in the same way.                                *)
(***************************************************************************)
C27_DecodeOrder ==
    (last.kind \in {"open", "func"} /\ DecodeFails(last)) =>
        /\ last.cb = 0
        /\ Len(last.reports) = 1
        /\ Len(last.reports[1].lines) = 2
        /\ LET summary == last.reports[1].lines[1].display.text
               cause == last.reports[1].lines[2].display
           IN  IF BadEvent(last)
               THEN /\ summary = "Invalid event integer"
                    /\ cause.arg = <<ToString(last.event_type)>>
               ELSE IF BadArgs(last)
               THEN /\ summary = "Malformed args from OpenVPN"
                    /\ cause = [text |-> "Input is null pointer", arg |-> <<>>]
               ELSE /\ summary = "Malformed env from OpenVPN"
                    /\ cause = EnvErrorText(last)

C27_Witness ==
    /\ last.kind = "func"
    /\ last.event_type = N + 1
    /\ last.argv.null
    /\ last.envp = Array(<< <<"k", "v">> >>)
    /\ Len(last.reports) = 1
    /\ last.reports[1].lines[1].display.text = "Invalid event integer"
    /\ last.cb = 0

C27_WitnessArgsBeforeEnv ==
    /\ last.kind = "func"
    /\ ~UnrecognizedCode(last.event_type)
    /\ last.argv.null
    /\ last.envp = Array(<< <<"k", "v">> >>)
    /\ last.reports[1].lines[1].display.text = "Malformed args from OpenVPN"

(***************************************************************************)
(* C28: events_to_bitmask depends only on the set of events in the list:   *)
(* every list with the same events, in any order and with any repetition,  *)
(* gives the same bitmask, and the bitmask of a concatenation is the       *)
(* bitwise OR of the bitmasks of its parts.                                *)
(***************************************************************************)
EventSet(events) == {events[i] : i \in 1 .. Len(events)}

OrOf(a, b) == SumPow2({i \in 0 .. 30 : Bit(a, i) \/ Bit(b, i)})

C28_BitmaskOfSet ==
    app.f = "events_to_bitmask" =>
        /\ \A other \in EventSeqs :
              EventSet(other) = EventSet(app.arg) => events_to_bitmask(other) = app.res
        /\ events_to_bitmask(app.arg \o app.arg) = app.res
        /\ \A i \in 0 .. Len(app.arg) :
              app.res = OrOf(events_to_bitmask(SubSeq(app.arg, 1, i)),
                             events_to_bitmask(SubSeq(app.arg, i + 1, Len(app.arg))))

C28_Witness ==
    /\ app.f = "events_to_bitmask"
    /\ app.arg = <<"N", "Up">>
    /\ app.res = 8193
    /\ events_to_bitmask(<<"Up", "N", "Up">>) = 8193

(***************************************************************************)
(* C29: for every list of defined events the bitmask is non-negative and   *)
(* fits the signed 32-bit type_mask: every shift 1 << code has a code      *)
(* below 31, and the result is below 2^14, 13 being the highest code.      *)
(***************************************************************************)
C29_BitmaskFitsTypeMask ==
    app.f = "events_to_bitmask" =>
        /\ \A j \in 1 .. Len(app.arg) : OpenVpnPluginEvent[app.arg[j]] \in 0 .. 30
        /\ app.res >= 0
        /\ app.res < 16384
        /\ app.res <= 2147483647

C29_Witness ==
    /\ app.f = "events_to_bitmask"
    /\ app.arg = <<"N", "RoutePredown">>
    /\ app.res = 12288

=============================================================================
